---- MODULE Spec2Model ----
(***************************************************************************)
(* Model of charuco.cpp: interactive capture of ChArUco board frames, the  *)
(* two-stage calibration (marker-only bootstrap, then board corners) and   *)
(* the parameter file writer.                                              *)
(*                                                                         *)
(* External services (frame source, marker detection, corner               *)
(* interpolation, the calibration solver, the file system) are modelled as *)
(* nondeterministic choices over small sets of results.  A corner          *)
(* quadruple is abstracted to one integer tag, an image to an integer      *)
(* handle; detection is a function of the image.  Rendering calls          *)
(* (drawDetectedMarkers, putText, imshow) change no program state and are  *)
(* left out.                                                               *)
(***************************************************************************)
EXTENDS Integers, Sequences, FiniteSets, TLC

VARIABLES
    pc,                      \* position of main()
    detect,                  \* the detector parameters object (line 109)
    key,                     \* char key (line 163 / 260)
    image, ids, corners,     \* locals of the capture loop body
    allCorners, allIds, allImgs, imgSize,
    cameraMatrix, distCoeffs,
    allCornersConcatenated, allIdsConcatenated, markerCounterPerFrame,
    arucoRepErr, repError,
    nFrames, i,
    allCharucoCorners, allCharucoIds, filteredImages,
    frame,                   \* index of the debugging display loop
    calls,                   \* log of the external service invocations of the pipeline
    outFile,                 \* the file outFile.txt
    cerr, cout               \* the two diagnostic streams

vars == <<pc, detect, key, image, ids, corners, allCorners, allIds, allImgs, imgSize,
          cameraMatrix, distCoeffs, allCornersConcatenated, allIdsConcatenated,
          markerCounterPerFrame, arucoRepErr, repError, nFrames, i,
          allCharucoCorners, allCharucoIds, filteredImages, frame, calls,
          outFile, cerr, cout>>

(***************************************************************************)
(* Bounds of the model                                                     *)
(***************************************************************************)
\* the frame source delivers frames only while fewer than MaxFrames are committed
MaxFrames == 4

(***************************************************************************)
(* Program constants                                                       *)
(***************************************************************************)
CALIB_USE_INTRINSIC_GUESS == 1
CALIB_FIX_ASPECT_RATIO == 2
CALIB_FIX_PRINCIPAL_POINT == 4
CALIB_ZERO_TANGENT_DIST == 8

\* flags & bit, for a single-bit mask
HasFlag(flags, bit) == (flags \div bit) % 2 = 1

\* int calibrationFlags = 0; calibrationFlags |= CALIB_FIX_ASPECT_RATIO;
calibrationFlags == IF HasFlag(0, CALIB_FIX_ASPECT_RATIO) THEN 0 ELSE 0 + CALIB_FIX_ASPECT_RATIO

\* a plausible slip: the quotient rounded up instead of truncated
aspectRatio_RoundedUp == (16 + 9 - 1) \div 9

\* double aspectRatio = (16 / 9);  integer division
aspectRatio == 16 \div 9

outputFile == "outFile.txt"
showChessboardCorners == TRUE
refineStrategy == FALSE
MinCharucoFrames == 4

KeyEsc == 27
KeyC == 99
KeyOther == 32
KeyNone == -1
Keys == {KeyEsc, KeyC, KeyOther, KeyNone}

(***************************************************************************)
(* The frames the source can deliver.  An image determines its pixel size  *)
(* and what detectMarkers finds in it (identifiers and corner quadruples   *)
(* of equal length).                                                       *)
(***************************************************************************)
NoImage == 0
Images == {1, 2, 3, 4}

ImageSize(img) == IF img = 4 THEN <<640, 480>> ELSE <<1280, 720>>

detectMarkers(img) ==
    CASE img = 1 -> [ids |-> <<>>,      corners |-> <<>>]
      [] img = 2 -> [ids |-> <<7>>,     corners |-> <<21>>]
      [] img = 3 -> [ids |-> <<3, 7>>,  corners |-> <<31, 32>>]
      [] img = 4 -> [ids |-> <<7, 3>>,  corners |-> <<41, 42>>]

\* refineDetectedMarkers may recover further markers; abstracted as leaving
\* the detection as it is (it is never called: refineStrategy is false)
refineDetectedMarkers(det) == det

\* Mat::eye(3, 3, CV_64F)
Eye3 == <<<<1, 0, 0>>, <<0, 1, 0>>, <<0, 0, 1>>>>
EmptyMat == <<>>

\* cameraMatrix.at<double>(0, 0) = v
SetAt00(m, v) == [m EXCEPT ![1] = [m[1] EXCEPT ![1] = v]]

\* a plausible slip: the element is inserted at the front
PushFront(v, x) == <<x>> \o v

\* vector::push_back
PushBack(v, x) == Append(v, x)

(***************************************************************************)
(* Results the calibration solver may write                                *)
(***************************************************************************)
SolverResults ==
    { [cameraMatrix |-> <<<<1, 0, 640>>, <<0, 1, 360>>, <<0, 0, 1>>>>,
       distCoeffs |-> <<0, 0, 0, 0, 0>>, err |-> 0],
      [cameraMatrix |-> <<<<900, 0, 640>>, <<0, 900, 360>>, <<0, 0, 1>>>>,
       distCoeffs |-> <<1, 0, 0, 0, 0>>, err |-> 2] }

(***************************************************************************)
(* Initial state: the locals of main() as constructed                      *)
(***************************************************************************)
Init ==
    /\ pc = "readDetectorParameters"
    /\ detect = "created"
    /\ key = KeyNone
    /\ image = NoImage /\ ids = <<>> /\ corners = <<>>
    /\ allCorners = <<>> /\ allIds = <<>> /\ allImgs = <<>>
    /\ imgSize = <<0, 0>>
    /\ cameraMatrix = EmptyMat /\ distCoeffs = EmptyMat
    /\ allCornersConcatenated = <<>> /\ allIdsConcatenated = <<>>
    /\ markerCounterPerFrame = <<>>
    /\ arucoRepErr = 0 /\ repError = 0
    /\ nFrames = 0 /\ i = 0
    /\ allCharucoCorners = <<>> /\ allCharucoIds = <<>> /\ filteredImages = <<>>
    /\ frame = 0
    /\ calls = <<>>
    /\ outFile = [exists |-> FALSE, fields |-> <<>>]
    /\ cerr = <<>> /\ cout = <<>>

captureVars == <<detect, key, image, ids, corners, allCorners, allIds, allImgs, imgSize>>
pipelineVars == <<cameraMatrix, distCoeffs, allCornersConcatenated, allIdsConcatenated,
                  markerCounterPerFrame, arucoRepErr, repError, nFrames, i,
                  allCharucoCorners, allCharucoIds, filteredImages, frame, calls,
                  outFile>>

(***************************************************************************)
(* Lines 109-110: readDetectorParameters("detectIn.yml", detect)           *)
(***************************************************************************)
\* a plausible slip: the missing "return false" after the failed open
ReadReturn_Always(isOpened) == TRUE

\* the value readDetectorParameters returns
ReadReturn(isOpened) == isOpened

\* lines 38-63: the parameters are filled in only when the file opens
readDetectorParameters(isOpened, params) ==
    IF ~isOpened
    THEN [ok |-> ReadReturn(isOpened), params |-> params]
    ELSE [ok |-> ReadReturn(isOpened), params |-> "read"]

ReadDetectorParameters ==
    /\ pc = "readDetectorParameters"
    /\ \E isOpened \in BOOLEAN :
          LET r == readDetectorParameters(isOpened, detect)
          IN /\ detect' = r.params
             /\ IF r.ok
                THEN /\ pc' = "grab"
                     /\ cerr' = cerr
                ELSE /\ pc' = "done"
                     /\ cerr' = Append(cerr, "Err DetectIn")
    /\ UNCHANGED <<key, image, ids, corners, allCorners, allIds, allImgs, imgSize,
                   pipelineVars, cout>>

(***************************************************************************)
(* Lines 133-162: while(cap.grab()) { retrieve; detectMarkers; ... imshow  *)
(***************************************************************************)
GrabFrame ==
    /\ pc = "grab"
    /\ Len(allIds) < MaxFrames
    /\ \E img \in Images :
          LET det0 == detectMarkers(img)
              det == IF refineStrategy THEN refineDetectedMarkers(det0) ELSE det0
          IN /\ image' = img
             /\ ids' = det.ids
             /\ corners' = det.corners
    /\ pc' = "waitKey"
    /\ UNCHANGED <<detect, key, allCorners, allIds, allImgs, imgSize, pipelineVars,
                   cerr, cout>>

\* cap.grab() returns false: the loop ends
GrabFails ==
    /\ pc = "grab"
    /\ pc' = "prepare"
    /\ UNCHANGED <<captureVars, pipelineVars, cerr, cout>>

\* a plausible slip: the ESC test never succeeds
IsAbort_Never(k) == FALSE

\* key == 27
IsAbort(k) == k = KeyEsc

\* a plausible slip: any key commits a frame with markers
CommitRequested_AnyKey(k, detectedIds) == Len(detectedIds) > 0

\* a plausible slip: the size is recorded for the first committed frame only
CommitSize_KeepFirst(old, img) == IF old = <<0, 0>> THEN ImageSize(img) ELSE old

\* imgSize = image.size()
CommitSize(old, img) == ImageSize(img)

\* a plausible slip: the detection check of the commit is left out
CommitRequested_NoCheck(k, detectedIds) == k = KeyC

\* key == 'c' && (int)ids.size() > 0
CommitRequested(k, detectedIds) == k = KeyC /\ Len(detectedIds) > 0

(***************************************************************************)
(* Lines 163-172: key = waitKey(waitTime); ESC breaks, 'c' commits         *)
(***************************************************************************)
WaitKey ==
    /\ pc = "waitKey"
    /\ \E k \in Keys :
          /\ key' = k
          /\ IF IsAbort(k)
             THEN /\ pc' = "prepare"
                  /\ UNCHANGED <<allCorners, allIds, allImgs, imgSize, cout>>
             ELSE /\ pc' = "grab"
                  /\ IF CommitRequested(k, ids)
                     THEN /\ allCorners' = PushBack(allCorners, corners)
                          /\ allIds' = PushBack(allIds, ids)
                          /\ allImgs' = PushBack(allImgs, image)
                          /\ imgSize' = CommitSize(imgSize, image)
                          /\ cout' = cout \o <<[text |-> "Frame captured", val |-> 0],
                                                  [text |-> "imgSize",
                                                   val |-> CommitSize(imgSize, image)]>>
                     ELSE UNCHANGED <<allCorners, allIds, allImgs, imgSize, cout>>
    /\ UNCHANGED <<detect, image, ids, corners, pipelineVars, cerr>>

(***************************************************************************)
(* Lines 175-199: the capture check, the seeding of the camera matrix and  *)
(* the flattening of the store for the marker-only calibration             *)
(***************************************************************************)
\* a plausible slip: the test can never be true
NotEnoughCaptures_Never(storedIds) == Len(storedIds) < 0

\* (int)allIds.size() < 1
NotEnoughCaptures(storedIds) == Len(storedIds) < 1

\* if(calibrationFlags & CALIB_FIX_ASPECT_RATIO) { eye; at(0,0) = aspectRatio }
SeedCameraMatrix(m, flags) ==
    IF HasFlag(flags, CALIB_FIX_ASPECT_RATIO) THEN SetAt00(Eye3, aspectRatio) ELSE m

\* a plausible slip: points are counted instead of markers
MarkerCount_Points(frameCorners) == 4 * Len(frameCorners)

\* (int)allCorners[i].size()
MarkerCount(frameCorners) == Len(frameCorners)

\* a plausible slip: the identifier is read from the mirrored position
IdAt_Mirrored(frameIds, j) == frameIds[Len(frameIds) + 1 - j]

\* allIds[i][j]
IdAt(frameIds, j) == frameIds[j]

\* a plausible slip: j <= size instead of j < size
InnerBound_OffByOne(frameCorners) == Len(frameCorners) + 1

\* allCorners[i].size(), the bound of the inner loop
InnerBound(frameCorners) == Len(frameCorners)

\* the inner loop over the markers of one frame, from position j on
RECURSIVE FlattenFrame(_, _, _, _)
FlattenFrame(frameCorners, frameIds, j, acc) ==
    IF j > InnerBound(frameCorners) THEN acc
    ELSE FlattenFrame(frameCorners, frameIds, j + 1,
            [acc EXCEPT !.corners = PushBack(@, frameCorners[j]),
                        !.ids = PushBack(@, IdAt(frameIds, j))])

\* the outer loop over the frames of the store, from frame k on
RECURSIVE FlattenStore(_, _, _, _)
FlattenStore(storedCorners, storedIds, k, acc) ==
    IF k > Len(storedCorners) THEN acc
    ELSE FlattenStore(storedCorners, storedIds, k + 1,
            FlattenFrame(storedCorners[k], storedIds[k], 1,
                [acc EXCEPT !.counter = PushBack(@, MarkerCount(storedCorners[k]))]))

PrepareCalibration ==
    /\ pc = "prepare"
    /\ IF NotEnoughCaptures(allIds)
       THEN /\ cerr' = Append(cerr, "Not enough captures for calibration")
            /\ pc' = "done"
            /\ UNCHANGED <<cameraMatrix, allCornersConcatenated, allIdsConcatenated,
                           markerCounterPerFrame>>
       ELSE LET flat == FlattenStore(allCorners, allIds, 1,
                            [corners |-> <<>>, ids |-> <<>>, counter |-> <<>>])
            IN /\ cameraMatrix' = SeedCameraMatrix(cameraMatrix, calibrationFlags)
               /\ allCornersConcatenated' = flat.corners
               /\ allIdsConcatenated' = flat.ids
               /\ markerCounterPerFrame' = flat.counter
               /\ pc' = "calibrateCameraAruco"
               /\ cerr' = cerr
    /\ UNCHANGED <<captureVars, distCoeffs, arucoRepErr, repError, nFrames, i,
                   allCharucoCorners, allCharucoIds, filteredImages, frame, calls,
                   outFile, cout>>

(***************************************************************************)
(* Lines 202-212: the marker-only solver, then the set-up of stage B       *)
(***************************************************************************)
CalibrateCameraAruco ==
    /\ pc = "calibrateCameraAruco"
    /\ \E r \in SolverResults :
          /\ calls' = Append(calls,
                [fn |-> "calibrateCameraAruco",
                 corners |-> allCornersConcatenated, ids |-> allIdsConcatenated,
                 counter |-> markerCounterPerFrame, imageSize |-> imgSize,
                 cameraMatrix |-> cameraMatrix, distCoeffs |-> distCoeffs,
                 flags |-> calibrationFlags,
                 outCameraMatrix |-> r.cameraMatrix, outDistCoeffs |-> r.distCoeffs])
          /\ cameraMatrix' = r.cameraMatrix
          /\ distCoeffs' = r.distCoeffs
          /\ arucoRepErr' = r.err
    /\ nFrames' = Len(allCorners)
    /\ i' = 0
    /\ pc' = "interpolate"
    /\ UNCHANGED <<captureVars, allCornersConcatenated, allIdsConcatenated,
                   markerCounterPerFrame, repError, allCharucoCorners, allCharucoIds,
                   filteredImages, frame, outFile, cerr, cout>>

(***************************************************************************)
(* Lines 214-224: one iteration of the interpolation loop                  *)
(***************************************************************************)
\* numbers of board corners one interpolation may yield
CharucoCounts == {0, 2}

\* the Mat pair interpolateCornersCharuco writes when it finds n board
\* corners in image img: corner c of the board seen in img, and its identifier
CharucoResult(img, n) ==
    [corners |-> [c \in 1..n |-> <<img, c>>], ids |-> [c \in 1..n |-> c]]

\* a plausible slip: the loop stops one frame early
LoopContinues_OneShort(k, n) == k + 1 < n

\* i < nFrames
LoopContinues(k, n) == k < n

\* a plausible slip: the first frame is read whatever the index
FrameAt_First(store, k) == store[1]

\* store[i] for the 0-based index i of a vector
FrameAt(store, k) == store[k + 1]

InterpolateFrame ==
    /\ pc = "interpolate"
    /\ LoopContinues(i, nFrames)
    /\ calls' = Append(calls,
          [fn |-> "interpolateCornersCharuco",
           corners |-> FrameAt(allCorners, i), ids |-> FrameAt(allIds, i),
           image |-> FrameAt(allImgs, i),
           cameraMatrix |-> cameraMatrix, distCoeffs |-> distCoeffs])
    /\ \E n \in CharucoCounts :
          LET res == CharucoResult(FrameAt(allImgs, i), n)
          IN /\ allCharucoCorners' = PushBack(allCharucoCorners, res.corners)
             /\ allCharucoIds' = PushBack(allCharucoIds, res.ids)
    /\ filteredImages' = PushBack(filteredImages, FrameAt(allImgs, i))
    /\ i' = i + 1
    /\ pc' = "interpolate"
    /\ UNCHANGED <<captureVars, cameraMatrix, distCoeffs, allCornersConcatenated,
                   allIdsConcatenated, markerCounterPerFrame, arucoRepErr, repError,
                   nFrames, frame, outFile, cerr, cout>>

(***************************************************************************)
(* Lines 226-229: the threshold before the board-corner solver             *)
(***************************************************************************)
\* a plausible slip: the threshold test is inverted
NotEnoughCorners_Inverted(charucoCorners) == Len(charucoCorners) >= MinCharucoFrames

\* allCharucoCorners.size() < 4
NotEnoughCorners(charucoCorners) == Len(charucoCorners) < MinCharucoFrames

CheckCorners ==
    /\ pc = "interpolate"
    /\ ~LoopContinues(i, nFrames)
    /\ IF NotEnoughCorners(allCharucoCorners)
       THEN /\ cerr' = Append(cerr, "Not enough corners for calibration")
            /\ pc' = "done"
       ELSE /\ cerr' = cerr
            /\ pc' = "calibrateCameraCharuco"
    /\ UNCHANGED <<captureVars, pipelineVars, cout>>

(***************************************************************************)
(* Lines 232-234: the board-corner solver                                  *)
(***************************************************************************)
CalibrateCameraCharuco ==
    /\ pc = "calibrateCameraCharuco"
    /\ calls' = Append(calls,
          [fn |-> "calibrateCameraCharuco",
           corners |-> allCharucoCorners, ids |-> allCharucoIds,
           imageSize |-> imgSize,
           cameraMatrix |-> cameraMatrix, distCoeffs |-> distCoeffs,
           flags |-> calibrationFlags])
    /\ \E r \in SolverResults :
          /\ cameraMatrix' = r.cameraMatrix
          /\ distCoeffs' = r.distCoeffs
          /\ repError' = r.err
    /\ pc' = "saveCameraParams"
    /\ UNCHANGED <<captureVars, allCornersConcatenated, allIdsConcatenated,
                   markerCounterPerFrame, arucoRepErr, nFrames, i, allCharucoCorners,
                   allCharucoIds, filteredImages, frame, outFile, cerr, cout>>

(***************************************************************************)
(* Lines 65-91: saveCameraParams.  A file is a sequence of entries         *)
(* [key, val] in the order they are written.                               *)
(***************************************************************************)
\* strftime(buf, ..., "%c", localtime(...)): the locale-formatted time
TimeString == "calibration_time_text"

\* sprintf(buf, "flags: %s%s%s%s", ...), as the sequence of its pieces
FlagsString(flags) ==
    <<"flags: ">>
    \o (IF HasFlag(flags, CALIB_USE_INTRINSIC_GUESS) THEN <<"+use_intrinsic_guess">> ELSE <<>>)
    \o (IF HasFlag(flags, CALIB_FIX_ASPECT_RATIO) THEN <<"+fix_aspectRatio">> ELSE <<>>)
    \o (IF HasFlag(flags, CALIB_FIX_PRINCIPAL_POINT) THEN <<"+fix_principal_point">> ELSE <<>>)
    \o (IF HasFlag(flags, CALIB_ZERO_TANGENT_DIST) THEN <<"+zero_tangent_dist">> ELSE <<>>)

Entry(k, v) == [key |-> k, val |-> v]

\* a plausible slip: the missing "return false" after the failed open
SaveReturn_Always(isOpened) == TRUE

\* the value saveCameraParams returns
SaveReturn(isOpened) == isOpened

\* the entries written once the file is open, in order; buf ends up holding
\* the flags text (when flags != 0), which no statement writes to the file
SaveEntries(imageSize, aspect, flags, camMat, dist, totalAvgErr) ==
    LET buf1 == TimeString
        buf2 == IF flags # 0 THEN FlagsString(flags) ELSE buf1
    IN    <<Entry("calibration_time", buf1)>>
       \o <<Entry("image_width", imageSize[1])>>
       \o <<Entry("image_height", imageSize[2])>>
       \o (IF HasFlag(flags, CALIB_FIX_ASPECT_RATIO)
           THEN <<Entry("aspectRatio", aspect)>> ELSE <<>>)
       \o <<Entry("flags", flags)>>
       \o <<Entry("camera_matrix", camMat)>>
       \o <<Entry("distortion_coefficients", dist)>>
       \o <<Entry("avg_reprojection_error", totalAvgErr)>>

\* FileStorage fs(filename, WRITE) creates or truncates the file when it opens
saveCameraParams(isOpened, file, imageSize, aspect, flags, camMat, dist, totalAvgErr) ==
    IF ~isOpened
    THEN [ok |-> SaveReturn(isOpened), file |-> file]
    ELSE [ok |-> SaveReturn(isOpened),
          file |-> [exists |-> TRUE,
                    fields |-> SaveEntries(imageSize, aspect, flags, camMat, dist,
                                           totalAvgErr)]]

Line(t, v) == [text |-> t, val |-> v]

(***************************************************************************)
(* Lines 236-245: the write of the result and the final report             *)
(***************************************************************************)
SaveCameraParams ==
    /\ pc = "saveCameraParams"
    /\ \E isOpened \in BOOLEAN :
          LET r == saveCameraParams(isOpened, outFile, imgSize, aspectRatio,
                                    calibrationFlags, cameraMatrix, distCoeffs, repError)
          IN /\ calls' = Append(calls, [fn |-> "saveCameraParams", isOpened |-> isOpened])
             /\ outFile' = r.file
             /\ IF ~r.ok
                THEN /\ cerr' = Append(cerr, "Cannot save output file")
                     /\ cout' = cout
                     /\ pc' = "done"
                ELSE /\ cerr' = cerr
                     /\ cout' = cout \o <<Line("Rep Error: ", repError),
                                          Line("Rep Error Aruco: ", arucoRepErr),
                                          Line("Calibration saved to ", outputFile)>>
                     /\ pc' = IF showChessboardCorners THEN "show" ELSE "done"
    /\ UNCHANGED <<captureVars, cameraMatrix, distCoeffs, allCornersConcatenated,
                   allIdsConcatenated, markerCounterPerFrame, arucoRepErr, repError,
                   nFrames, i, allCharucoCorners, allCharucoIds, filteredImages, frame>>

(***************************************************************************)
(* Lines 248-263: the display of the interpolated corners, frame by frame  *)
(***************************************************************************)
\* a plausible slip: the loop index is never advanced
NextShown_Stuck(f) == f

\* frame++
NextShown(f) == f + 1

ShowFrame ==
    /\ pc = "show"
    /\ frame < Len(filteredImages)
    /\ \E k \in Keys :
          /\ key' = k
          /\ IF k = KeyEsc
             THEN pc' = "done" /\ frame' = frame
             ELSE pc' = "show" /\ frame' = NextShown(frame)
    /\ UNCHANGED <<detect, image, ids, corners, allCorners, allIds, allImgs, imgSize,
                   cameraMatrix, distCoeffs, allCornersConcatenated, allIdsConcatenated,
                   markerCounterPerFrame, arucoRepErr, repError, nFrames, i,
                   allCharucoCorners, allCharucoIds, filteredImages, calls, outFile,
                   cerr, cout>>

ShowDone ==
    /\ pc = "show"
    /\ ~(frame < Len(filteredImages))
    /\ pc' = "done"
    /\ UNCHANGED <<captureVars, pipelineVars, cerr, cout>>

Next ==
    \/ ReadDetectorParameters
    \/ GrabFrame
    \/ GrabFails
    \/ WaitKey
    \/ PrepareCalibration
    \/ CalibrateCameraAruco
    \/ InterpolateFrame
    \/ CheckCorners
    \/ CalibrateCameraCharuco
    \/ SaveCameraParams
    \/ ShowFrame
    \/ ShowDone

Spec == Init /\ [][Next]_vars

\* Every step of main() that can run does run (each external call returns),
\* and the frame source eventually fails: cap.grab() cannot succeed forever.
FairSpec == Spec /\ WF_vars(Next) /\ SF_vars(GrabFails)

(***************************************************************************)
(* Vocabulary of the properties                                            *)
(***************************************************************************)
SessionFinished == pc \notin {"readDetectorParameters", "grab", "waitKey"}

ConfigurationError == pc = "done" /\ cerr = <<"Err DetectIn">>
NoDataError == pc = "done" /\ cerr = <<"Not enough captures for calibration">>
InsufficientCalibrationData == pc = "done" /\ cerr = <<"Not enough corners for calibration">>
PersistenceError == pc = "done" /\ cerr = <<"Cannot save output file">>

CallIndices(fn) == {k \in 1..Len(calls) : calls[k].fn = fn}
SolverCalls == CallIndices("calibrateCameraAruco") \cup CallIndices("calibrateCameraCharuco")

\* the flattening loop of stage A has run
FlattenDone ==
    \/ pc \in {"calibrateCameraAruco", "interpolate", "calibrateCameraCharuco",
               "saveCameraParams", "show"}
    \/ pc = "done" /\ calls # <<>>

\* the interpolation loop of stage B has run over every committed frame
InterpolationDone ==
    /\ FlattenDone
    /\ CallIndices("calibrateCameraAruco") # {}
    /\ ~(pc = "interpolate" /\ LoopContinues(i, nFrames))
    /\ pc # "calibrateCameraAruco"

NonEmptyFrames == {k \in 1..Len(allCharucoCorners) : Len(allCharucoCorners[k]) > 0}

RECURSIVE SumSeq(_)
SumSeq(q) == IF q = <<>> THEN 0 ELSE Head(q) + SumSeq(Tail(q))

\* cut a flat sequence into consecutive segments of the given lengths
RECURSIVE Resegment(_, _)
Resegment(flat, counts) ==
    IF counts = <<>> THEN <<>>
    ELSE <<SubSeq(flat, 1, Head(counts))>>
         \o Resegment(SubSeq(flat, Head(counts) + 1, Len(flat)), Tail(counts))

IsPrefix(p, q) == Len(p) <= Len(q) /\ SubSeq(q, 1, Len(p)) = p

(***************************************************************************)
(* C1: when fewer than 4 committed frames interpolated to a non-empty      *)
(* corner set, the run ends with InsufficientCalibrationData, the board    *)
(* corner solver is never invoked and no output file is written.  The code *)
(* compares the number of committed frames, not of non-empty ones.         *)
(***************************************************************************)
C1_Original ==
    (InterpolationDone /\ Cardinality(NonEmptyFrames) < 4)
        => /\ CallIndices("calibrateCameraCharuco") = {}
           /\ ~outFile.exists
           /\ pc = "done" => InsufficientCalibrationData

(***************************************************************************)
(* C2: the correspondence sets handed to the board-corner solver hold no   *)
(* entry of a frame whose interpolation yielded zero corners.              *)
(***************************************************************************)
C2_Original ==
    \A k \in CallIndices("calibrateCameraCharuco") :
        \A f \in 1..Len(calls[k].corners) : Len(calls[k].corners[f]) > 0

(***************************************************************************)
(* C3: with the fixed-aspect-ratio flag set, the camera matrix handed to   *)
(* either solver has its (0,0) entry equal to the aspect ratio.            *)
(***************************************************************************)
C3_Original ==
    \A k \in SolverCalls :
        HasFlag(calls[k].flags, CALIB_FIX_ASPECT_RATIO)
            => calls[k].cameraMatrix[1][1] = aspectRatio

(***************************************************************************)
(* C4: a commit command appends exactly one observation if and only if the *)
(* current frame has at least one detected marker; otherwise the store is  *)
(* unchanged; either way the session goes on with the next frame.  Every   *)
(* stored observation has at least one marker.                             *)
(***************************************************************************)
C4_StoreInv ==
    \A k \in 1..Len(allIds) : Len(allIds[k]) >= 1 /\ Len(allCorners[k]) >= 1

C4_CommitStep ==
    (pc = "waitKey" /\ pc' # "waitKey" /\ key' = KeyC)
        => /\ pc' = "grab"
           /\ IF Len(ids) >= 1
              THEN /\ allCorners' = Append(allCorners, corners)
                   /\ allIds' = Append(allIds, ids)
                   /\ allImgs' = Append(allImgs, image)
              ELSE UNCHANGED <<allCorners, allIds, allImgs>>

C4_Theorem == [][C4_CommitStep]_vars /\ []C4_StoreInv

\* a commit on a frame without markers was refused after an earlier commit succeeded
C4_Witness ==
    pc = "grab" /\ key = KeyC /\ Len(ids) = 0 /\ image # NoImage /\ Len(allIds) = 1

(***************************************************************************)
(* C5: a session that ends with zero committed frames ends the run with    *)
(* NoDataError before stage A: no solver, no interpolation, no save.       *)
(***************************************************************************)
C5_Theorem ==
    (SessionFinished /\ ~ConfigurationError /\ Len(allIds) = 0)
        => /\ pc \in {"prepare", "done"}
           /\ pc = "done" => NoDataError
           /\ calls = <<>>
           /\ cameraMatrix = EmptyMat
           /\ allCharucoCorners = <<>>
           /\ ~outFile.exists /\ outFile.fields = <<>>

C5_Witness == NoDataError /\ Len(allIds) = 0 /\ calls = <<>>

(***************************************************************************)
(* C6: after the flattening loop the marker counter has one entry per      *)
(* committed frame, in commit order, and its sum equals the length of the  *)
(* concatenated corners, which equals the length of the concatenated ids.  *)
(***************************************************************************)
C6_Theorem ==
    FlattenDone
        => /\ Len(markerCounterPerFrame) = Len(allCorners)
           /\ \A k \in 1..Len(allCorners) : markerCounterPerFrame[k] = Len(allCorners[k])
           /\ SumSeq(markerCounterPerFrame) = Len(allCornersConcatenated)
           /\ Len(allCornersConcatenated) = Len(allIdsConcatenated)

C6_Witness ==
    /\ FlattenDone
    /\ Len(markerCounterPerFrame) >= 3
    /\ markerCounterPerFrame[1] # markerCounterPerFrame[2]
    /\ SumSeq(markerCounterPerFrame) = Len(allCornersConcatenated)

(***************************************************************************)
(* C7: cutting the concatenated corners and the concatenated identifiers   *)
(* into segments of the lengths of the marker counter gives back the       *)
(* per-frame corner lists and identifier lists, in commit order.           *)
(***************************************************************************)
C7_Theorem ==
    FlattenDone
        => /\ Resegment(allCornersConcatenated, markerCounterPerFrame) = allCorners
           /\ Resegment(allIdsConcatenated, markerCounterPerFrame) = allIds

C7_Witness ==
    /\ FlattenDone
    /\ Len(allCorners) >= 3
    /\ Len(allCorners[1]) = 1 /\ Len(allCorners[2]) = 2
    /\ allIds[2] # allIds[3]
    /\ Resegment(allIdsConcatenated, markerCounterPerFrame) = allIds

(***************************************************************************)
(* C8: the store is append-only: a step leaves it unchanged or extends it  *)
(* by one observation at the end, stored entries keep their index and      *)
(* value, and once the session is finished no step changes the store.      *)
(***************************************************************************)
C8_Step ==
    /\ \/ UNCHANGED <<allCorners, allIds, allImgs>>
       \/ /\ Len(allCorners') = Len(allCorners) + 1
          /\ Len(allIds') = Len(allIds) + 1
          /\ Len(allImgs') = Len(allImgs) + 1
          /\ IsPrefix(allCorners, allCorners')
          /\ IsPrefix(allIds, allIds')
          /\ IsPrefix(allImgs, allImgs')
    /\ SessionFinished => UNCHANGED <<allCorners, allIds, allImgs>>

C8_Theorem == [][C8_Step]_vars

\* the whole pipeline has run over a store of several different frames
C8_Witness ==
    /\ pc = "done" /\ outFile.exists
    /\ Len(allImgs) >= 4 /\ allImgs[1] # allImgs[2]

(***************************************************************************)
(* C9: a written file holds, in this order: calibration time, image width, *)
(* image height, aspect ratio (iff the fixed-aspect-ratio flag is set),    *)
(* the flags text (iff flags is not 0), the flags value, camera matrix,    *)
(* distortion coefficients, average reprojection error.  The code formats  *)
(* the flags text into buf and never writes it.                            *)
(***************************************************************************)
NamedKeys == {"calibration_time", "image_width", "image_height", "aspectRatio", "flags",
              "camera_matrix", "distortion_coefficients", "avg_reprojection_error"}

\* "*" stands for the entry that carries the flags text
ExpectedKeys(flags) ==
    <<"calibration_time", "image_width", "image_height">>
    \o (IF HasFlag(flags, CALIB_FIX_ASPECT_RATIO) THEN <<"aspectRatio">> ELSE <<>>)
    \o (IF flags # 0 THEN <<"*">> ELSE <<>>)
    \o <<"flags", "camera_matrix", "distortion_coefficients", "avg_reprojection_error">>

C9_Original ==
    outFile.exists
        => LET want == ExpectedKeys(calibrationFlags)
           IN /\ Len(outFile.fields) = Len(want)
              /\ \A k \in 1..Len(want) :
                    IF want[k] = "*"
                    THEN outFile.fields[k].key \notin NamedKeys
                    ELSE outFile.fields[k].key = want[k]

(***************************************************************************)
(* C10: when the output file cannot be opened the writer returns failure   *)
(* and writes nothing; this happens only after both solver invocations,    *)
(* and the run ends with PersistenceError: the diagnostic is reported, no  *)
(* reprojection error is printed and no file content exists.               *)
(***************************************************************************)
C10_Theorem ==
    /\ \A k \in CallIndices("saveCameraParams") :
          ~calls[k].isOpened
              => /\ k = Len(calls)
                 /\ PersistenceError
                 /\ ~outFile.exists /\ outFile.fields = <<>>
                 /\ \A l \in 1..Len(cout) :
                       cout[l].text \notin {"Rep Error: ", "Rep Error Aruco: ",
                                            "Calibration saved to "}
                 /\ \E a, b \in 1..(k - 1) :
                       /\ a < b
                       /\ calls[a].fn = "calibrateCameraAruco"
                       /\ calls[b].fn = "calibrateCameraCharuco"
    /\ PersistenceError
          => /\ calls # <<>>
             /\ calls[Len(calls)].fn = "saveCameraParams"
             /\ ~calls[Len(calls)].isOpened

C10_Witness ==
    /\ PersistenceError
    /\ calls # <<>> /\ calls[Len(calls)].fn = "saveCameraParams"
    /\ ~calls[Len(calls)].isOpened

(***************************************************************************)
(* C11: when the detector configuration file cannot be opened the run ends *)
(* with ConfigurationError before any capture: no frame is acquired, no    *)
(* detection is run, the store stays empty, no solver is invoked and no    *)
(* output file is written.                                                 *)
(***************************************************************************)
\* the configuration file was tried and did not open: the parameters were not read
ConfigNotOpened == pc # "readDetectorParameters" /\ detect = "created"

C11_Theorem ==
    /\ ConfigNotOpened
          => /\ ConfigurationError
             /\ image = NoImage /\ ids = <<>> /\ corners = <<>> /\ key = KeyNone
             /\ allCorners = <<>> /\ allIds = <<>> /\ allImgs = <<>>
             /\ calls = <<>>
             /\ cameraMatrix = EmptyMat
             /\ ~outFile.exists /\ outFile.fields = <<>>
             /\ cout = <<>>
    /\ ConfigurationError => ConfigNotOpened

C11_Witness == ConfigurationError /\ ConfigNotOpened /\ allImgs = <<>>

(***************************************************************************)
(* C12: with one to three committed frames the run ends with               *)
(* InsufficientCalibrationData after stage A, without a board-corner       *)
(* solver invocation or an output file, whatever the interpolations yield. *)
(***************************************************************************)
C12_Theorem ==
    (SessionFinished /\ Len(allIds) >= 1 /\ Len(allIds) <= 3)
        => /\ pc \in {"prepare", "calibrateCameraAruco", "interpolate", "done"}
           /\ CallIndices("calibrateCameraCharuco") = {}
           /\ CallIndices("saveCameraParams") = {}
           /\ ~outFile.exists
           /\ pc = "done"
                 => /\ InsufficientCalibrationData
                    /\ Cardinality(CallIndices("calibrateCameraAruco")) = 1
                    /\ Len(allCharucoCorners) = Len(allIds)

\* three committed frames of which exactly two interpolated to a non-empty set
C12_Witness ==
    /\ InsufficientCalibrationData
    /\ Len(allIds) = 3
    /\ Cardinality(NonEmptyFrames) = 2

(***************************************************************************)
(* C13: if the frame source eventually fails or the user aborts, and every *)
(* service call returns, the run reaches a terminal state with exactly one *)
(* of the outcomes ConfigurationError, NoDataError,                        *)
(* InsufficientCalibrationData, PersistenceError and Success; the output   *)
(* file exists only with Success and is never partial.                     *)
(***************************************************************************)
Success ==
    /\ pc = "done" /\ cerr = <<>>
    /\ \E l \in 1..Len(cout) : cout[l].text = "Calibration saved to "

OutcomeCount ==
    (IF ConfigurationError THEN 1 ELSE 0) + (IF NoDataError THEN 1 ELSE 0)
    + (IF InsufficientCalibrationData THEN 1 ELSE 0) + (IF PersistenceError THEN 1 ELSE 0)
    + (IF Success THEN 1 ELSE 0)

\* every entry saveCameraParams writes for the flags of main() is in the file
FileComplete ==
    /\ Len(outFile.fields) = Cardinality(NamedKeys)
    /\ {outFile.fields[k].key : k \in 1..Len(outFile.fields)} = NamedKeys

C13_Outcome ==
    /\ pc = "done" => OutcomeCount = 1 /\ (outFile.exists <=> Success)
    /\ outFile.exists => pc \in {"show", "done"} /\ FileComplete
    /\ ~outFile.exists => outFile.fields = <<>>

C13_Theorem == <>(pc = "done") /\ []C13_Outcome

C13_Witness == Success /\ outFile.exists /\ FileComplete /\ frame = Len(filteredImages)

(***************************************************************************)
(* C14: the steps of the pipeline happen in a fixed order: the marker-only *)
(* solver exactly once, after the session is finished with a non-empty     *)
(* store; every interpolation with intrinsics after it, with the camera    *)
(* matrix and distortion coefficients it produced; the board-corner solver *)
(* at most once, after all interpolations; the writer at most once, after  *)
(* the board-corner solver.                                                *)
(***************************************************************************)
C14_Theorem ==
    LET n == Len(allCorners)
        A == CallIndices("calibrateCameraAruco")
        B == CallIndices("interpolateCornersCharuco")
        C == CallIndices("calibrateCameraCharuco")
        D == CallIndices("saveCameraParams")
    IN /\ calls # <<>> => SessionFinished /\ n >= 1 /\ A = {1}
       /\ pc \in {"interpolate", "calibrateCameraCharuco", "saveCameraParams", "show"}
             => A = {1}
       /\ A = {1} => Len(calls[1].counter) = n /\ calls[1].counter # <<>>
       /\ \A k \in B :
             /\ k >= 2 /\ k <= n + 1
             /\ calls[k].cameraMatrix = calls[1].outCameraMatrix
             /\ calls[k].distCoeffs = calls[1].outDistCoeffs
       /\ C # {} => C = {n + 2} /\ B = 2..(n + 1)
       /\ D # {} => D = {n + 3} /\ C = {n + 2}
       /\ pc = "calibrateCameraCharuco" => B = 2..(n + 1) /\ C = {}
       /\ pc = "saveCameraParams" => C = {n + 2} /\ D = {}

\* the four kinds of call have all happened, in a run whose stage A moved the matrix
C14_Witness ==
    /\ CallIndices("saveCameraParams") # {}
    /\ Len(calls) = Len(allCorners) + 3
    /\ calls[1].outCameraMatrix # calls[1].cameraMatrix
    /\ calls[2].cameraMatrix = calls[1].outCameraMatrix

(***************************************************************************)
(* C15: an abort command (ESC) while a command is awaited ends the session *)
(* whether or not the current frame has markers; the current frame is not  *)
(* stored, no further frame is acquired or detected, and the finished      *)
(* session never resumes.                                                  *)
(***************************************************************************)
C15_Step ==
    /\ (pc = "waitKey" /\ pc' # "waitKey" /\ key' = KeyEsc)
          => /\ pc' = "prepare"
             /\ UNCHANGED <<allCorners, allIds, allImgs, imgSize>>
    /\ SessionFinished
          => /\ SessionFinished'
             /\ UNCHANGED <<image, ids, corners>>

C15_Theorem == [][C15_Step]_vars

\* the session was aborted on a frame without markers and the run went on to its end
C15_Witness ==
    /\ pc = "done" /\ key = KeyEsc /\ NoDataError
    /\ image # NoImage /\ Len(ids) = 0

(***************************************************************************)
(* C16: a command other than commit and abort, or no command within the    *)
(* wait, leaves the store and the recorded image size unchanged and moves  *)
(* the session to the next frame acquisition, whatever was detected.       *)
(***************************************************************************)
C16_Step ==
    (pc = "waitKey" /\ pc' # "waitKey" /\ key' \notin {KeyC, KeyEsc})
        => /\ pc' = "grab"
           /\ UNCHANGED <<allCorners, allIds, allImgs, imgSize>>

C16_Theorem == [][C16_Step]_vars

\* the wait ran out on a frame with two markers, after one commit
C16_Witness ==
    pc = "grab" /\ key = KeyNone /\ Len(ids) = 2 /\ Len(allIds) = 1

(***************************************************************************)
(* C17: after the interpolation loop the interpolated corner sets and the  *)
(* interpolated identifier sets have one entry per committed frame, and    *)
(* entry k is the interpolation of the k-th committed frame: of its own    *)
(* markers, identifiers and image.                                         *)
(***************************************************************************)
C17_Theorem ==
    InterpolationDone
        => /\ Len(allCharucoCorners) = Len(allCorners)
           /\ Len(allCharucoIds) = Len(allCorners)
           /\ Len(filteredImages) = Len(allCorners)
           /\ \A k \in 1..Len(allCorners) :
                 /\ calls[k + 1].fn = "interpolateCornersCharuco"
                 /\ calls[k + 1].corners = allCorners[k]
                 /\ calls[k + 1].ids = allIds[k]
                 /\ calls[k + 1].image = allImgs[k]
                 /\ filteredImages[k] = allImgs[k]
                 /\ Len(allCharucoIds[k]) = Len(allCharucoCorners[k])
                 /\ \A c \in 1..Len(allCharucoCorners[k]) :
                       allCharucoCorners[k][c][1] = allImgs[k]

\* different frames were committed and interpolated, some to corners, one to none
C17_Witness ==
    /\ InterpolationDone
    /\ Len(allCorners) >= 3
    /\ allImgs[1] # allImgs[2]
    /\ Len(allCharucoCorners[1]) > 0 /\ Len(allCharucoCorners[2]) > 0
    /\ Len(allCharucoCorners[3]) = 0

(***************************************************************************)
(* C18: detection returning identifiers and corners of equal length, every *)
(* stored observation has as many identifiers as corner quadruples, so the *)
(* flattening loop, which indexes the identifiers of a frame by the        *)
(* positions of its corners, reads no identifier out of range.             *)
(***************************************************************************)
\* the positions of the identifiers the inner loop reads for stored frame k
IdReads(k) == 1..InnerBound(allCorners[k])

C18_Theorem ==
    /\ Len(ids) = Len(corners)
    /\ Len(allIds) = Len(allCorners)
    /\ \A k \in 1..Len(allCorners) :
          /\ Len(allIds[k]) = Len(allCorners[k])
          /\ IdReads(k) \subseteq DOMAIN allIds[k]
    /\ FlattenDone
          => \A p \in 1..Len(allIdsConcatenated) :
                \E k \in 1..Len(allIds) : \E j \in DOMAIN allIds[k] :
                    allIdsConcatenated[p] = allIds[k][j]

\* the flattening has read both identifiers of a two-marker frame
C18_Witness ==
    /\ FlattenDone
    /\ Len(allIds) >= 2
    /\ Len(allIds[2]) = 2 /\ Len(allCorners[2]) = 2
    /\ Len(allIdsConcatenated) >= 3

(***************************************************************************)
(* C19: the aspect ratio is the integer quotient of 16 by 9, so the value  *)
(* seeded into entry (0,0) of the camera matrix before stage A and the     *)
(* value passed to the writer is exactly 1: the seed is the plain identity.*)
(***************************************************************************)
C19_Theorem ==
    /\ pc = "calibrateCameraAruco" => cameraMatrix = Eye3
    /\ \A k \in CallIndices("calibrateCameraAruco") :
          /\ calls[k].cameraMatrix[1][1] = 1
          /\ calls[k].cameraMatrix = Eye3
    /\ outFile.exists
          => \E k \in 1..Len(outFile.fields) :
                outFile.fields[k].key = "aspectRatio" /\ outFile.fields[k].val = 1

\* the seeded matrix went into stage A and the ratio into a written file
C19_Witness ==
    /\ outFile.exists
    /\ CallIndices("calibrateCameraAruco") = {1}
    /\ calls[1].cameraMatrix = Eye3
    /\ outFile.fields[4].key = "aspectRatio"

(***************************************************************************)
(* C20: with a non-empty store the image size passed to both solvers and   *)
(* to the writer is the pixel size of the most recently committed frame:   *)
(* each commit overwrites it, nothing else changes it, and frames of       *)
(* different sizes are accepted side by side.                              *)
(***************************************************************************)
LastCommittedSize == ImageSize(allImgs[Len(allImgs)])

C20_Inv ==
    Len(allImgs) >= 1
        => /\ imgSize = LastCommittedSize
           /\ \A k \in SolverCalls : calls[k].imageSize = LastCommittedSize
           /\ outFile.exists
                 => /\ outFile.fields[2].key = "image_width"
                    /\ outFile.fields[2].val = LastCommittedSize[1]
                    /\ outFile.fields[3].key = "image_height"
                    /\ outFile.fields[3].val = LastCommittedSize[2]

C20_Step ==
    /\ imgSize' # imgSize
          => pc = "waitKey" /\ key' = KeyC /\ Len(allImgs') = Len(allImgs) + 1
    /\ Len(allImgs') = Len(allImgs) + 1 => imgSize' = ImageSize(image)

C20_Theorem == []C20_Inv /\ [][C20_Step]_vars

\* frames of two sizes were committed, the smaller one last, and the file was written
C20_Witness ==
    /\ outFile.exists
    /\ Len(allImgs) >= 4
    /\ ImageSize(allImgs[1]) # LastCommittedSize
    /\ imgSize = <<640, 480>>
    /\ CallIndices("calibrateCameraCharuco") # {}

====
